---------------------------- MODULE Spec2Model ----------------------------
(***************************************************************************)
(* A model of PDFQuestionExtractor (src/app.py): the stream classifier     *)
(* _extract_text_and_images, the question assembler _structure_questions   *)
(* and _save_json, driven by extract().                                    *)
(*                                                                         *)
(* A Python str is a sequence of one-character strings, so that slicing,   *)
(* substring tests and the regular expressions of the source are computed  *)
(* character by character.                                                 *)
(***************************************************************************)
EXTENDS Naturals, Sequences, FiniteSets

(***************************************************************************)
(* Character classes of Python's re module                                 *)
(***************************************************************************)
Digit == {"0", "1", "2", "3", "4", "5", "6", "7", "8", "9"}

Letter ==
    {"A", "B", "C", "D", "E", "F", "G", "H", "I", "J", "K", "L", "M",
     "N", "O", "P", "Q", "R", "S", "T", "U", "V", "W", "X", "Y", "Z",
     "a", "b", "c", "d", "e", "f", "g", "h", "i", "j", "k", "l", "m",
     "n", "o", "p", "q", "r", "s", "t", "u", "v", "w", "x", "y", "z"}

\* \w
WordChar == Letter \cup Digit \cup {"_"}

\* \s, and the characters str.strip() removes
Space == {" ", "\t", "\n", "\r", "\f"}

\* [A-D]
OptionLetter == {"A", "B", "C", "D"}

\* s[k] when k is an index of s, and a value that is no character otherwise
At(s, k) == IF k \in 1..Len(s) THEN s[k] ELSE "<none>"

\* s starts with p at (1-based) position k
StartsAt(s, p, k) ==
    /\ k >= 1
    /\ k + Len(p) - 1 <= Len(s)
    /\ \A n \in 1..Len(p) : s[k + n - 1] = p[n]

\* Python's "sub in s"
Contains(sub, s) == \E k \in 1..(Len(s) + 1) : StartsAt(s, sub, k)

Min(S) == CHOOSE x \in S : \A y \in S : x <= y

\* str(n) of a non-negative int
RECURSIVE DecStr(_)
DecStr(n) ==
    LET d == <<"0", "1", "2", "3", "4", "5", "6", "7", "8", "9">>
    IN  IF n < 10 THEN <<d[n + 1]>> ELSE DecStr(n \div 10) \o <<d[(n % 10) + 1]>>

\* "\n".join(lines)
RECURSIVE Join(_)
Join(lines) ==
    IF lines = <<>> THEN <<>>
    ELSE IF Len(lines) = 1 THEN lines[1]
    ELSE lines[1] \o <<"\n">> \o Join(Tail(lines))

\* str.strip()
RECURSIVE LStrip(_)
LStrip(s) == IF s # <<>> /\ s[1] \in Space THEN LStrip(Tail(s)) ELSE s

RECURSIVE RStrip(_)
RStrip(s) ==
    IF s # <<>> /\ s[Len(s)] \in Space THEN RStrip(SubSeq(s, 1, Len(s) - 1)) ELSE s

Strip(s) == RStrip(LStrip(s))

(***************************************************************************)
(* re.search(r'\b(\d+)\.(?!\n)', text)                                     *)
(***************************************************************************)
\* the last index of the run of digits that starts at p (p - 1 when there is none)
RECURSIVE DigitRunEnd(_, _)
DigitRunEnd(text, p) ==
    IF At(text, p) \in Digit THEN DigitRunEnd(text, p + 1) ELSE p - 1

\* the pattern matches with its first character at p: a word boundary, a run
\* of digits, a period, and no line break right after it
QuesMatchAt(text, p) ==
    /\ At(text, p) \in Digit
    /\ At(text, p - 1) \notin WordChar
    /\ At(text, DigitRunEnd(text, p) + 1) = "."
    /\ At(text, DigitRunEnd(text, p) + 2) # "\n"

QuesStarts(text) == {p \in 1..Len(text) : QuesMatchAt(text, p)}

\* bool(matches_ques)
MatchesQues(text) == QuesStarts(text) # {}

\* matches_ques.group(1) of the leftmost match
QuesGroup(text) ==
    LET p == Min(QuesStarts(text)) IN SubSeq(text, p, DigitRunEnd(text, p))

(***************************************************************************)
(* re.search(r'\[[A-D]\]', text)                                           *)
(***************************************************************************)
OptionMatchAt(text, p) ==
    /\ At(text, p) = "["
    /\ At(text, p + 1) \in OptionLetter
    /\ At(text, p + 2) = "]"

OptionStarts(text) == {p \in 1..Len(text) : OptionMatchAt(text, p)}

\* bool(matches_option)
MatchesOption(text) == OptionStarts(text) # {}

\* the letter inside the leftmost match
OptionGroup(text) == text[Min(OptionStarts(text)) + 1]

(***************************************************************************)
(* re.split(r'(?:^|\n)(\d{1,2})\.\s', combined_text)                       *)
(***************************************************************************)
\* \d in place of \d{1,2}: a numeral of one digit only
NumeralLenOneDigit(text, ds) ==
    IF /\ At(text, ds) \in Digit
       /\ At(text, ds + 1) = "."
       /\ At(text, ds + 2) \in Space
    THEN 1
    ELSE 0

\* the number of digits \d{1,2} takes when the numeral starts at ds and the
\* rest of the pattern matches (greedy, two digits tried first); 0: no match
NumeralLen(text, ds) ==
    IF /\ At(text, ds) \in Digit
       /\ At(text, ds + 1) \in Digit
       /\ At(text, ds + 2) = "."
       /\ At(text, ds + 3) \in Space
    THEN 2
    ELSE IF /\ At(text, ds) \in Digit
            /\ At(text, ds + 1) = "."
            /\ At(text, ds + 2) \in Space
    THEN 1
    ELSE 0

\* the pattern without its (?:^|\n): a numeral matches wherever it stands
NumeralStartAnywhere(text, s) == IF NumeralLen(text, s) > 0 THEN s ELSE 0

\* where the numeral starts for a match attempted at s: at s itself through
\* "^" (s = 1 only), after the line break through "\n"; 0: neither
NumeralStart(text, s) ==
    IF s = 1 /\ NumeralLen(text, 1) > 0 THEN 1
    ELSE IF At(text, s) = "\n" /\ NumeralLen(text, s + 1) > 0 THEN s + 1
    ELSE 0

\* scan from s; seg is where the current unmatched segment began
RECURSIVE SplitFrom(_, _, _)
SplitFrom(text, s, seg) ==
    IF s > Len(text) THEN <<SubSeq(text, seg, Len(text))>>
    ELSE LET ds == NumeralStart(text, s)
             n  == NumeralLen(text, ds)
             e  == ds + n + 1           \* the \s that ends the match
         IN  IF ds = 0 THEN SplitFrom(text, s + 1, seg)
             ELSE <<SubSeq(text, seg, s - 1), SubSeq(text, ds, ds + n - 1)>>
                      \o SplitFrom(text, e + 1, e + 1)

ReSplit(text) == SplitFrom(text, 1, 1)

(***************************************************************************)
(* re.sub(r'Ans\s*\[[A-D]\]|\[[A-D]\].*|Ans.*|SECTION.*|\n\n.*|\n', '', t) *)
(***************************************************************************)
Ans == <<"A", "n", "s">>
SECTION == <<"S", "E", "C", "T", "I", "O", "N">>

\* the first index >= p that does not hold a whitespace character
RECURSIVE SkipSpace(_, _)
SkipSpace(t, p) == IF At(t, p) \in Space THEN SkipSpace(t, p + 1) ELSE p

\* where ".*" started at p stops: the first index >= p that holds a line
\* break, or Len(t) + 1
RECURSIVE LineEnd(_, _)
LineEnd(t, p) ==
    IF p > Len(t) \/ t[p] = "\n" THEN p ELSE LineEnd(t, p + 1)

\* \[[A-D]\] in place of \[[A-D]\].*: the marker goes, its line stays
CleanMatchEndMarkerOnly(t, p) ==
    IF StartsAt(t, Ans, p) /\ OptionMatchAt(t, SkipSpace(t, p + 3))
        THEN SkipSpace(t, p + 3) + 3
    ELSE IF OptionMatchAt(t, p) THEN p + 3
    ELSE IF StartsAt(t, Ans, p) THEN LineEnd(t, p + 3)
    ELSE IF StartsAt(t, SECTION, p) THEN LineEnd(t, p + 7)
    ELSE IF StartsAt(t, <<"\n", "\n">>, p) THEN LineEnd(t, p + 2)
    ELSE IF At(t, p) = "\n" THEN p + 1
    ELSE p

\* the index after the match of the first alternative that matches at p
\* (alternatives are tried in the order written); p itself: none matches
CleanMatchEnd(t, p) ==
    IF StartsAt(t, Ans, p) /\ OptionMatchAt(t, SkipSpace(t, p + 3))
        THEN SkipSpace(t, p + 3) + 3
    ELSE IF OptionMatchAt(t, p) THEN LineEnd(t, p + 3)
    ELSE IF StartsAt(t, Ans, p) THEN LineEnd(t, p + 3)
    ELSE IF StartsAt(t, SECTION, p) THEN LineEnd(t, p + 7)
    ELSE IF StartsAt(t, <<"\n", "\n">>, p) THEN LineEnd(t, p + 2)
    ELSE IF At(t, p) = "\n" THEN p + 1
    ELSE p

RECURSIVE CleanFrom(_, _)
CleanFrom(t, p) ==
    IF p > Len(t) THEN <<>>
    ELSE LET e == CleanMatchEnd(t, p)
         IN  IF e = p THEN <<t[p]>> \o CleanFrom(t, p + 1)
             ELSE CleanFrom(t, e)

ReSubClean(t) == CleanFrom(t, 1)

(***************************************************************************)
(* The document: doc[p] is content["blocks"] of page p, as the layout      *)
(* library returns it.  A block is a text block (type 0) with its lines,   *)
(* each line given by the text of its first span, or an image block        *)
(* (type 1) with its bytes and extension.                                  *)
(***************************************************************************)
TextBlock(lines) == [type |-> 0, lines |-> lines, image |-> "", ext |-> <<>>]
ImageBlock(bytes, ext) == [type |-> 1, lines |-> <<>>, image |-> bytes, ext |-> ext]

VARIABLES
    doc,              \* the input document (never changes)
    pc,               \* where extract() is
    page_number,      \* the page the classifier is on (from 1)
    i,                \* the block index of the classifier's inner loop (from 0)
    line_no,          \* the line of the text block being read (from 1)
    all_text,         \* the text fragments kept so far
    image_data,       \* the tagged images so far
    prev,             \* 0: the last match was a question, 1: an option
    ques,             \* the current question number, as an f-string formats
                      \* it (the int 1 at first, a str from then on)
    option,           \* the current option letter, as it is formatted
    img_count,        \* the running image counter
    parts,            \* re.split's result
    part_i,           \* the assembler's loop index i into parts (from 0)
    q_number,         \* the assembler's record counter
    img_index,        \* the assembler's image cursor (from 0)
    q_text,           \* the stripped span of the current record
    question_images,  \* the current record's question image paths
    option_images,    \* the current record's option image paths
    questions,        \* the records built so far
    files,            \* the image directory: a set of <<path, bytes>>
    writes,           \* the paths written, one entry per write, in order
    json,             \* what questions_structured.json holds
    run,              \* which run of the pipeline this is
    first_run         \* the outcome of the first run, once it is over

classifier == <<page_number, i, line_no, all_text, image_data, prev, ques, option, img_count>>
assembler == <<parts, part_i, q_number, img_index, q_text, question_images,
               option_images, questions>>
storage == <<files, writes, json>>
vars == <<doc, pc, classifier, assembler, storage, run, first_run>>

\* self.image_dir / img_name, as str(): output_dir is "" in __main__
image_dir == <<"i", "m", "a", "g", "e", "s", "/">>
ImgPath(img_name) == image_dir \o img_name

(***************************************************************************)
(* _extract_text_and_images                                                *)
(***************************************************************************)
\* matches_ques.string[:2]
QuesOf(text) == SubSeq(text, 1, IF Len(text) < 2 THEN Len(text) ELSE 2)

\* matches_option.string[1]
OptionOf(text) == <<text[2]>>

\* the two f-strings that name an image
ImgName(role, q, opt, count, ext) ==
    IF role = 1
    THEN <<"q">> \o q \o <<"_", "o", "p", "t", "i", "o", "n">> \o opt
             \o <<"_">> \o DecStr(count) \o <<".">> \o ext
    ELSE <<"i", "m", "g", "_", "q">> \o q \o <<"_">> \o DecStr(count)
             \o <<".">> \o ext

Blocks == doc[page_number]

\* the inner loop has a block to process: range(len(content["blocks"]) - 1)
InBlocks ==
    /\ pc = "classify"
    /\ page_number <= Len(doc)
    /\ i + 1 < Len(Blocks)

Block == Blocks[i + 1]

\* the same with elif in place of the second if: the option pattern is tried
\* only on a fragment that does not match the question pattern
ClassifyLineElif ==
    /\ InBlocks
    /\ Block.type = 0
    /\ LET lines == Block.lines
           text  == lines[line_no]
           kept  == Len(lines) > 0 /\ Len(text) > 0
           mq    == kept /\ MatchesQues(text)
           mo    == kept /\ ~mq /\ MatchesOption(text)
       IN  /\ all_text' = IF kept THEN Append(all_text, text) ELSE all_text
           /\ ques' = IF mq THEN QuesOf(text) ELSE ques
           /\ option' = IF mo THEN OptionOf(text) ELSE option
           /\ prev' = IF mo THEN 1 ELSE IF mq THEN 0 ELSE prev
           /\ IF line_no < Len(lines)
              THEN line_no' = line_no + 1 /\ i' = i
              ELSE line_no' = 1 /\ i' = i + 1
    /\ UNCHANGED <<doc, pc, page_number, image_data, img_count, assembler,
                   storage, run, first_run>>

\* one line of a text block (a block without lines is passed over); text is
\* line['spans'][0]['text'], and a line dict is never of length 0
ClassifyLine ==
    /\ InBlocks
    /\ Block.type = 0
    /\ LET lines == Block.lines
           text  == lines[line_no]
           kept  == Len(lines) > 0 /\ Len(text) > 0
           mq    == kept /\ MatchesQues(text)
           mo    == kept /\ MatchesOption(text)
       IN  /\ all_text' = IF kept THEN Append(all_text, text) ELSE all_text
           /\ ques' = IF mq THEN QuesOf(text) ELSE ques
           /\ option' = IF mo THEN OptionOf(text) ELSE option
           /\ prev' = IF mo THEN 1 ELSE IF mq THEN 0 ELSE prev
           /\ IF line_no < Len(lines)
              THEN line_no' = line_no + 1 /\ i' = i
              ELSE line_no' = 1 /\ i' = i + 1
    /\ UNCHANGED <<doc, pc, page_number, image_data, img_count, assembler,
                   storage, run, first_run>>

\* the same with the role set back to QuestionContext once the image is tagged
ClassifyImageResetsRole ==
    /\ InBlocks
    /\ Block.type = 1
    /\ image_data' = Append(image_data,
            [data |-> Block.image,
             page |-> page_number,
             name |-> ImgName(prev, ques, option, img_count, Block.ext)])
    /\ img_count' = img_count + 1
    /\ i' = i + 1
    /\ prev' = 0
    /\ UNCHANGED <<doc, pc, page_number, line_no, all_text, ques, option,
                   assembler, storage, run, first_run>>

ClassifyImage ==
    /\ InBlocks
    /\ Block.type = 1
    /\ image_data' = Append(image_data,
            [data |-> Block.image,
             page |-> page_number,
             name |-> ImgName(prev, ques, option, img_count, Block.ext)])
    /\ img_count' = img_count + 1
    /\ i' = i + 1
    /\ UNCHANGED <<doc, pc, page_number, line_no, all_text, prev, ques, option,
                   assembler, storage, run, first_run>>

\* the inner loop is over: on to the next page
NextPage ==
    /\ pc = "classify"
    /\ page_number <= Len(doc)
    /\ ~(i + 1 < Len(Blocks))
    /\ page_number' = page_number + 1
    /\ i' = 0
    /\ line_no' = 1
    /\ UNCHANGED <<doc, pc, all_text, image_data, prev, ques, option, img_count,
                   assembler, storage, run, first_run>>

\* "\n".join(all_text), the first value returned
CombinedText == Join(all_text)

(***************************************************************************)
(* _structure_questions                                                    *)
(***************************************************************************)
\* the classifier returns and the assembler starts
StructureBegin ==
    /\ pc = "classify"
    /\ page_number > Len(doc)
    /\ parts' = ReSplit(CombinedText)
    /\ questions' = <<>>
    /\ img_index' = 0
    /\ q_number' = 1
    /\ part_i' = 1
    /\ pc' = "for"
    /\ UNCHANGED <<doc, classifier, q_text, question_images, option_images,
                   storage, run, first_run>>

\* the lists start with the image directory in them
NoImagesDirty == <<image_dir>>

\* question_images = [] and option_images = []
NoImages == <<>>

\* the for loop takes its next span
ForRecord ==
    /\ pc = "for"
    /\ part_i < Len(parts)
    /\ q_text' = Strip(parts[part_i + 2])       \* parts[i + 1], counted from 0
    /\ question_images' = NoImages
    /\ option_images' = NoImages
    /\ pc' = "while"
    /\ UNCHANGED <<doc, classifier, parts, part_i, q_number, img_index,
                   questions, storage, run, first_run>>

\* f'img_q{q_number}' in img_name
IsQuestionImage(n, img_name) ==
    Contains(<<"i", "m", "g", "_", "q">> \o DecStr(n), img_name)

\* f'q{q_number}' in img_name
MentionsQuestion(n, img_name) == Contains(<<"q">> \o DecStr(n), img_name)

\* open(img_path, "wb") and f.write(data)
WriteFile(fs, path, bytes) == {f \in fs : f[1] # path} \cup {<<path, bytes>>}

\* one pass of the while loop
ScanImage ==
    /\ pc = "while"
    /\ img_index < Len(image_data)
    /\ LET img      == image_data[img_index + 1]
           img_name == img.name
           img_path == ImgPath(img_name)
       IN  /\ files' = WriteFile(files, img_path, img.data)
           /\ writes' = Append(writes, img_path)
           /\ question_images' =
                  IF IsQuestionImage(q_number, img_name)
                  THEN Append(question_images, img_path)
                  ELSE question_images
           /\ option_images' =
                  IF /\ ~IsQuestionImage(q_number, img_name)
                     /\ MentionsQuestion(q_number, img_name)
                  THEN Append(option_images, img_path)
                  ELSE option_images
           /\ IF ~MentionsQuestion(q_number, img_name)
              THEN pc' = "append" /\ img_index' = img_index
              ELSE pc' = "while" /\ img_index' = img_index + 1
    /\ UNCHANGED <<doc, classifier, parts, part_i, q_number, q_text, questions,
                   json, run, first_run>>

\* the record of questions.append
Record(n, text, qimgs, oimgs) ==
    [question_number |-> n,
     question        |-> Strip(ReSubClean(text)),
     question_images |-> qimgs,
     option_images   |-> oimgs]

\* the while loop is over (exhausted or broken out of): the record is appended
AppendRecord ==
    /\ pc \in {"append", "while"}
    /\ pc = "while" => ~(img_index < Len(image_data))
    /\ questions' = Append(questions,
                           Record(q_number, q_text, question_images, option_images))
    /\ q_number' = q_number + 1
    /\ part_i' = part_i + 2
    /\ pc' = "for"
    /\ UNCHANGED <<doc, classifier, parts, img_index, q_text, question_images,
                   option_images, storage, run, first_run>>

(***************************************************************************)
(* _save_json                                                              *)
(***************************************************************************)
\* the for loop is over: questions is returned and saved
SaveJson ==
    /\ pc = "for"
    /\ ~(part_i < Len(parts))
    /\ json' = questions
    /\ pc' = "done"
    /\ UNCHANGED <<doc, classifier, assembler, files, writes, run, first_run>>

(***************************************************************************)
(* extract()                                                               *)
(***************************************************************************)
\* the counter goes on from where an earlier call left it
CountKept(left) == left

\* img_count = 0: a local of the call, whatever an earlier call left behind
CountAtStart(left) == 0

\* the locals as the two methods initialise them
ClassifierStart ==
    /\ page_number = 1
    /\ i = 0
    /\ line_no = 1
    /\ all_text = <<>>
    /\ image_data = <<>>
    /\ prev = 0
    /\ ques = <<"1">>
    /\ option = <<"[", "A", "]">>
    /\ img_count = CountAtStart(0)

AssemblerIdle ==
    /\ parts = <<>>
    /\ part_i = 1
    /\ q_number = 1
    /\ img_index = 0
    /\ q_text = <<>>
    /\ question_images = <<>>
    /\ option_images = <<>>
    /\ questions = <<>>

\* a new extractor on document d with an empty output directory
InitOn(d) ==
    /\ doc = d
    /\ pc = "classify"
    /\ ClassifierStart
    /\ AssemblerIdle
    /\ files = {}
    /\ writes = <<>>
    /\ json = <<>>
    /\ run = 1
    /\ first_run = <<>>

Next ==
    \/ ClassifyLine
    \/ ClassifyImage
    \/ NextPage
    \/ StructureBegin
    \/ ForRecord
    \/ ScanImage
    \/ AppendRecord
    \/ SaveJson

\* extract() is run a second time on the same document, the output directory
\* emptied first; what the first run produced is set aside
Rerun ==
    /\ pc = "done"
    /\ run = 1
    /\ first_run' = <<[json |-> json, files |-> files]>>
    /\ run' = 2
    /\ pc' = "classify"
    /\ page_number' = 1
    /\ i' = 0
    /\ line_no' = 1
    /\ all_text' = <<>>
    /\ image_data' = <<>>
    /\ prev' = 0
    /\ ques' = <<"1">>
    /\ option' = <<"[", "A", "]">>
    /\ img_count' = CountAtStart(img_count)
    /\ parts' = <<>>
    /\ part_i' = 1
    /\ q_number' = 1
    /\ img_index' = 0
    /\ q_text' = <<>>
    /\ question_images' = <<>>
    /\ option_images' = <<>>
    /\ questions' = <<>>
    /\ files' = {}
    /\ writes' = <<>>
    /\ json' = <<>>
    /\ UNCHANGED doc

NextTwice == Next \/ Rerun

(***************************************************************************)
(* Documents                                                               *)
(***************************************************************************)
\* the most blocks a document has
MaxBlocks == 4

\* the documents of 1..MaxBlocks blocks drawn from V, on one page or cut
\* into two pages at any place
Docs(V) ==
    UNION {
        UNION { {<<bs>>} \cup {<<SubSeq(bs, 1, c), SubSeq(bs, c + 1, n)>> : c \in 1..(n - 1)}
                : bs \in [1..n -> V] }
        : n \in 1..MaxBlocks }

png == <<"p", "n", "g">>
Picture == ImageBlock("bytes", png)

\* questions, an option line, an answer line, a block with a two-digit
\* numeral, an empty line and a line that matches nothing, and a picture
ExamBlocks ==
    {TextBlock(<<<<"1", ".", " ", "Q">>>>), TextBlock(<<<<"2", ".", " ", "Q">>>>),
     TextBlock(<<<<"[", "A", "]", " ", "x">>>>), TextBlock(<<<<"A", "n", "s", " ", "[", "B", "]">>>>),
     TextBlock(<<<<"1", "0", ".", " ", "Q">>, <<>>, <<"n", "o", "t", "e">>>>),
     Picture}

\* lines that are boundaries and lines that are not, with repeated, skipped
\* and disordered numerals, a numeral alone on its line and one followed by
\* a tab
BoundaryBlocks ==
    {TextBlock(<<<<"3", ".", " ", "Q">>>>),
     TextBlock(<<<<"1", ".">>>>),
     TextBlock(<<<<"Q">>, <<"1", "2", ".", " ", "R">>>>),
     TextBlock(<<<<"1", "2", "3", ".", " ", "Q">>, <<" ", "3", ".", " ", "Q">>, <<"3", ".", "Q">>>>),
     TextBlock(<<<<"7", ".", "\t", "Q">>, <<"0", "8", ".", " ", "S">>>>),
     Picture}

\* spans with text after the answer key and after a section header
NoiseBlocks ==
    {TextBlock(<<<<"1", ".", " ", "Q">>>>),
     TextBlock(<<<<"A", "n", "s", " ", "[", "B", "]", " ", "j", "u", "n", "k">>>>),
     TextBlock(<<<<"Q", " ", "S", "E", "C", "T", "I", "O", "N", " ", "I", "I">>, <<"m", "o", "r", "e">>>>),
     TextBlock(<<<<"[", "A", "]", " ", "x">>>>),
     Picture}

\* a question with its option lines and answer line per block: a plain body,
\* a plain body after a two-digit numeral, a body that holds "Ans", a body
\* that starts with a space and holds an option marker
StreamBlocks ==
    {TextBlock(<<<<"1", ".", " ", "Q">>, <<"[", "A", "]", " ", "x">>, <<"[", "B", "]", " ", "y">>, <<"A", "n", "s", " ", "[", "B", "]">>>>),
     TextBlock(<<<<"1", "2", ".", " ", "W", "h", "y", " ", "R">>, <<"[", "C", "]", " ", "x">>, <<"A", "n", "s", " ", "[", "C", "]">>>>),
     TextBlock(<<<<"3", ".", " ", "A", "n", "s", "w", "e", "r">>, <<"[", "D", "]", " ", "x">>, <<"A", "n", "s", " ", "[", "A", "]">>>>),
     TextBlock(<<<<"4", ".", " ", " ", "S", "e", "e", " ", "[", "A", "]">>, <<"[", "B", "]", " ", "x">>, <<"A", "n", "s", " ", "[", "D", "]">>>>),
     TextBlock(<<<<"n", "o", "t", "e">>>>),
     Picture}

\* the two-question stream of the specification, on one page
ScenarioLines ==
    <<<<"1", ".", " ", "W", "h", "a", "t", " ", "i", "s", " ", "2", "+", "2", "?">>,
      <<"[", "A", "]", " ", "3">>,
      <<"[", "B", "]", " ", "4">>,
      <<"A", "n", "s", " ", "[", "B", "]">>,
      <<"2", ".", " ", "W", "h", "a", "t", " ", "i", "s", " ", "t", "h", "e", " ", "c", "a", "p", "i", "t", "a", "l", " ", "o", "f", " ", "F", "r", "a", "n", "c", "e", "?">>,
      <<"[", "A", "]", " ", "P", "a", "r", "i", "s">>,
      <<"[", "B", "]", " ", "L", "y", "o", "n">>,
      <<"A", "n", "s", " ", "[", "A", "]">>>>

ScenarioDoc == <<<<TextBlock(ScenarioLines), Picture>>>>

\* a question before a line that starts with q1 and holds the numeral of
\* question 2, an option line, an empty line before a line that matches
\* nothing, a line that holds both a numeral and an option marker, and a
\* picture
RoleBlocks ==
    {TextBlock(<<<<"1", ".", " ", "Q">>, <<"q", "1", " ", "2", ".", " ", "x">>>>),
     TextBlock(<<<<"[", "B", "]", " ", "y">>>>),
     TextBlock(<<<<>>, <<"n", "o", "t", "e">>>>),
     TextBlock(<<<<"2", ".", " ", "[", "C", "]", " ", "y">>>>),
     Picture}

Init == \E d \in Docs(ExamBlocks) : InitOn(d)
Spec == Init /\ [][Next]_vars

SpecTwice == Init /\ [][NextTwice]_vars

InitBoundary == \E d \in Docs(BoundaryBlocks) : InitOn(d)
SpecBoundary == InitBoundary /\ [][Next]_vars

InitNoise == \E d \in Docs(NoiseBlocks) : InitOn(d)
SpecNoise == InitNoise /\ [][Next]_vars

InitStream == \E d \in Docs(StreamBlocks) \cup {ScenarioDoc} : InitOn(d)
SpecStream == InitStream /\ [][Next]_vars

InitRoles == \E d \in Docs(RoleBlocks) : InitOn(d)
SpecRoles == InitRoles /\ [][Next]_vars

(***************************************************************************)
(* What the classifier's state is meant to be, read off the fragments      *)
(***************************************************************************)
Last(q) == q[Len(q)]
Front(q) == SubSeq(q, 1, Len(q) - 1)

\* the numeral of the last fragment that matched the question pattern (1
\* before any did)
RECURSIVE CurrentNumeral(_)
CurrentNumeral(texts) ==
    IF texts = <<>> THEN <<"1">>
    ELSE IF MatchesQues(Last(texts)) THEN QuesGroup(Last(texts))
    ELSE CurrentNumeral(Front(texts))

\* the role the last matching fragment set: 1 for an option, 0 for a question
RECURSIVE CurrentRole(_)
CurrentRole(texts) ==
    IF texts = <<>> THEN 0
    ELSE IF MatchesOption(Last(texts)) THEN 1
    ELSE IF MatchesQues(Last(texts)) THEN 0
    ELSE CurrentRole(Front(texts))

\* the step tags an image
TagsImage == InBlocks /\ Block.type = 1 /\ image_data' # image_data

\* img_q{N}_{count}.{ext} with N a numeral
QuestionName(nm, count, ext) ==
    LET e == DigitRunEnd(nm, 6)
    IN  /\ StartsAt(nm, <<"i", "m", "g", "_", "q">>, 1)
        /\ e >= 6
        /\ SubSeq(nm, e + 1, Len(nm)) = <<"_">> \o DecStr(count) \o <<".">> \o ext

\* q{N}_option{L}_{count}.{ext} with N a numeral and L one of A..D
OptionName(nm, count, ext) ==
    LET e == DigitRunEnd(nm, 2)
    IN  /\ StartsAt(nm, <<"q">>, 1)
        /\ e >= 2
        /\ \E L \in OptionLetter :
               SubSeq(nm, e + 1, Len(nm)) =
                   <<"_", "o", "p", "t", "i", "o", "n", L, "_">>
                       \o DecStr(count) \o <<".">> \o ext

(***************************************************************************)
(* C2: the first image of the document, met while the role is              *)
(* QuestionContext and the current question number is 1, is named          *)
(* img_q1_0.<ext> (and is then attached to record 1 only).                 *)
(***************************************************************************)
C2_FirstImageOfQuestion1 ==
    [][(/\ TagsImage
        /\ image_data = <<>>
        /\ CurrentRole(all_text) = 0
        /\ CurrentNumeral(all_text) = <<"1">>)
       => image_data'[1].name =
              <<"i", "m", "g", "_", "q", "1", "_", "0", ".">> \o Block.ext]_vars

(***************************************************************************)
(* C8: every tagged image is named img_q{N}_{counter}.{ext} in             *)
(* QuestionContext and q{N}_option{L}_{counter}.{ext} in OptionContext,    *)
(* with N digits only, L one letter of A..D and counter the number of      *)
(* images tagged before it in the whole document.                          *)
(***************************************************************************)
C8_ImageNameForm ==
    [][TagsImage =>
           LET nm == Last(image_data').name
           IN  IF CurrentRole(all_text) = 1
               THEN OptionName(nm, Len(image_data), Block.ext)
               ELSE QuestionName(nm, Len(image_data), Block.ext)]_vars

(***************************************************************************)
(* C9: once a fragment that matches the question pattern is processed, the *)
(* current question number is the numeral that was matched.                *)
(***************************************************************************)
C9_QuesIsMatchedNumeral ==
    (all_text # <<>> /\ MatchesQues(Last(all_text)))
        => ques = QuesGroup(Last(all_text))

(***************************************************************************)
(* C10: once a fragment that holds an option marker is processed, the      *)
(* current option letter is the letter inside the matched marker, so one   *)
(* of A, B, C, D.                                                          *)
(***************************************************************************)
C10_OptionIsMatchedLetter ==
    (all_text # <<>> /\ MatchesOption(Last(all_text)))
        => /\ option = <<OptionGroup(Last(all_text))>>
           /\ option[1] \in OptionLetter

(***************************************************************************)
(* Spans and their cleaned text                                            *)
(***************************************************************************)
\* the raw span of record k: the text re.split returned after its numeral
SpanOf(k) == parts[2 * k + 1]

\* "Ans [X]" with X in A..D starts at a
AnswerKeyAt(t, a) == StartsAt(t, Ans \o <<" ">>, a) /\ OptionMatchAt(t, a + 4)

\* what follows the answer key at a on its line
AfterKey(t, a) == Strip(SubSeq(t, a + 7, LineEnd(t, a + 7) - 1))

\* the first place where SECTION starts in t
SectionStart(t) == Min({a \in 1..Len(t) : StartsAt(t, SECTION, a)})

(***************************************************************************)
(* C3: when a span holds an answer key "Ans [X]" followed on its line by   *)
(* further text, the cleaned question text holds neither the key nor the   *)
(* text that follows it.                                                   *)
(***************************************************************************)
C3_AnswerSuffixRemoved ==
    \A k \in 1..Len(questions) :
        \A a \in 1..Len(SpanOf(k)) :
            (AnswerKeyAt(SpanOf(k), a) /\ AfterKey(SpanOf(k), a) # <<>>)
                => /\ ~Contains(SubSeq(SpanOf(k), a, a + 6), questions[k].question)
                   /\ ~Contains(AfterKey(SpanOf(k), a), questions[k].question)

(***************************************************************************)
(* C4: when a span holds SECTION, the cleaned question text is the cleaned *)
(* part of the span before SECTION: nothing from SECTION to the end of the *)
(* span survives, the lines after the SECTION line included.               *)
(***************************************************************************)
C4_SectionSuffixRemoved ==
    \A k \in 1..Len(questions) :
        Contains(SECTION, SpanOf(k))
            => questions[k].question =
                   Strip(ReSubClean(Strip(
                       SubSeq(SpanOf(k), 1, SectionStart(SpanOf(k)) - 1))))

(***************************************************************************)
(* C5: when the tagged image list is empty, every record has empty         *)
(* question_images and option_images and no image file is ever written,    *)
(* whatever the number of records.                                         *)
(***************************************************************************)
HasNoImages(r) == r.question_images = <<>> /\ r.option_images = <<>>

C5_NoImagesNoAttachments ==
    (pc # "classify" /\ image_data = <<>>)
        => /\ writes = <<>>
           /\ files = {}
           /\ question_images = <<>>
           /\ option_images = <<>>
           /\ \A k \in 1..Len(questions) : HasNoImages(questions[k])
           /\ \A k \in 1..Len(json) : HasNoImages(json[k])

C5_Witness ==
    /\ pc = "done"
    /\ image_data = <<>>
    /\ Len(json) >= 2

LineStart(t, p) == p = 1 \/ At(t, p - 1) = "\n"

\* one or two digits and a period start at p, and c is what follows them
NumeralThen(t, p, c) ==
    \/ At(t, p) \in Digit /\ At(t, p + 1) = "." /\ At(t, p + 2) = c
    \/ At(t, p) \in Digit /\ At(t, p + 1) \in Digit /\ At(t, p + 2) = "."
           /\ At(t, p + 3) = c

\* the well-formed boundaries: one or two digits, a period and a space at
\* the start of the text or of a line
Boundaries(t) == {p \in 1..Len(t) : LineStart(t, p) /\ NumeralThen(t, p, " ")}

\* a line-initial numeral and period with whitespace other than a space
\* right after (a numeral alone on its line)
BareNumerals(t) ==
    {p \in 1..Len(t) :
        LineStart(t, p) /\ \E c \in Space \ {" "} : NumeralThen(t, p, c)}

NumberedInOrder(recs) == \A k \in 1..Len(recs) : recs[k].question_number = k

IsBoundaryLine(l) == NumeralThen(l, 1, " ")
BodyOf(l) == SubSeq(l, IF l[2] = "." THEN 4 ELSE 5, Len(l))

\* "[X] text"
IsOptionLine(l) == OptionMatchAt(l, 1)

\* "Ans [X]"
IsAnswerLine(l) == Len(l) = 7 /\ AnswerKeyAt(l, 1)

\* lines k.. are questions, each a boundary line, one or more option lines
\* and an answer line; before is the kind of line k - 1
RECURSIVE ExamFrom(_, _, _)
ExamFrom(lines, k, before) ==
    IF k > Len(lines) THEN before = "answer"
    ELSE LET l == lines[k]
         IN  CASE before \in {"none", "answer"} ->
                      IsBoundaryLine(l) /\ ExamFrom(lines, k + 1, "boundary")
               [] before = "boundary" ->
                      IsOptionLine(l) /\ ExamFrom(lines, k + 1, "option")
               [] OTHER ->
                      \/ IsOptionLine(l) /\ ExamFrom(lines, k + 1, "option")
                      \/ IsAnswerLine(l) /\ ExamFrom(lines, k + 1, "answer")

ExamStream(lines) == ExamFrom(lines, 1, "none")

\* the question bodies of a stream, in order
Bodies(lines) ==
    LET b == SelectSeq(lines, IsBoundaryLine)
    IN  [k \in 1..Len(b) |-> BodyOf(b[k])]

\* a body that the cleaning leaves as it is
PlainBody(b) ==
    /\ Strip(b) = b
    /\ ~Contains(Ans, b)
    /\ ~Contains(SECTION, b)
    /\ ~MatchesOption(b)

ScenarioRecords ==
    <<[question_number |-> 1,
       question |-> <<"W", "h", "a", "t", " ", "i", "s", " ", "2", "+", "2", "?">>,
       question_images |-> <<>>, option_images |-> <<>>],
      [question_number |-> 2,
       question |-> <<"W", "h", "a", "t", " ", "i", "s", " ", "t", "h", "e", " ", "c", "a", "p", "i", "t", "a", "l", " ", "o", "f", " ", "F", "r", "a", "n", "c", "e", "?">>,
       question_images |-> <<>>, option_images |-> <<>>]>>

\* an image-free stream of questions has been assembled
StreamAssembled == pc = "done" /\ image_data = <<>> /\ ExamStream(all_text)

NameOf(path) == SubSeq(path, Len(image_dir) + 1, Len(path))

\* the name is in the QuestionContext form, img_q...
QuestionTagged(nm) == StartsAt(nm, <<"i", "m", "g", "_", "q">>, 1)

\* the question number a tag encodes: the digits after img_q, or after q
TagNumber(nm) ==
    LET s == IF QuestionTagged(nm) THEN 6 ELSE 2
    IN  SubSeq(nm, s, DigitRunEnd(nm, s))

\* the paths attached to a record, in either list
AttachedTo(r) ==
    {r.question_images[a] : a \in 1..Len(r.question_images)}
        \cup {r.option_images[a] : a \in 1..Len(r.option_images)}

(***************************************************************************)
(* C11: an image is in question_images or option_images of record n only   *)
(* if the question number its tag encodes is exactly n; a tag whose number *)
(* only shares a prefix with n (10 for record 1) is not attached to it.    *)
(***************************************************************************)
C11_AttachedTagIsExact ==
    \A k \in 1..Len(questions) :
        \A path \in AttachedTo(questions[k]) :
            TagNumber(NameOf(path)) = DecStr(questions[k].question_number)

(***************************************************************************)
(* The blocks of the document, in document order                           *)
(***************************************************************************)
\* the blocks of all pages, one after another
RECURSIVE AllBlocks(_)
AllBlocks(pages) ==
    IF pages = <<>> THEN <<>> ELSE pages[1] \o AllBlocks(Tail(pages))

\* the lines that are not empty, in order
RECURSIVE NonEmpty(_)
NonEmpty(lines) ==
    IF lines = <<>> THEN <<>>
    ELSE (IF Len(lines[1]) > 0 THEN <<lines[1]>> ELSE <<>>)
             \o NonEmpty(Tail(lines))

\* the text fragments the blocks hold, in order
RECURSIVE FragmentsOf(_)
FragmentsOf(blocks) ==
    IF blocks = <<>> THEN <<>>
    ELSE (IF blocks[1].type = 0 THEN NonEmpty(blocks[1].lines) ELSE <<>>)
             \o FragmentsOf(Tail(blocks))

\* the number of image blocks
RECURSIVE ImageBlocks(_)
ImageBlocks(blocks) ==
    IF blocks = <<>> THEN 0
    ELSE (IF blocks[1].type = 1 THEN 1 ELSE 0) + ImageBlocks(Tail(blocks))

(***************************************************************************)
(* C12: the classifier processes every block of every page: once it is     *)
(* over, there is one tagged image per image block of the document, the    *)
(* last block of a page included, and flat_text holds the non-empty text   *)
(* fragments of all blocks in document order.                              *)
(***************************************************************************)
C12_EveryBlockProcessed ==
    pc # "classify"
        => /\ Len(image_data) = ImageBlocks(AllBlocks(doc))
           /\ all_text = FragmentsOf(AllBlocks(doc))

(***************************************************************************)
(* C13: each tagged image is written to storage at most once: no path is   *)
(* written twice, so an image that ended the scan of record n is not       *)
(* written again when record n+1 examines it.                              *)
(***************************************************************************)
C13_WrittenAtMostOnce ==
    \A a, b \in 1..Len(writes) : writes[a] = writes[b] => a = b

(***************************************************************************)
(* The scan of one record                                                  *)
(***************************************************************************)
\* the scan of the current record is looking at an image
Examines == pc = "while" /\ img_index < Len(image_data)

\* the image under the cursor
UnderCursor == image_data[img_index + 1]

\* the tag of the image under the cursor encodes another number than n
TagDiffers(n) == TagNumber(UnderCursor.name) # DecStr(n)

(***************************************************************************)
(* C14: when the scan of record n meets an image whose tag does not match  *)
(* n, the scan of record n ends with the cursor unmoved; record n then     *)
(* examines no further image, the cursor stays where it is until record    *)
(* n+1 scans, and the image any scan examines is the one under the cursor, *)
(* so record n+1 examines that same image first.                           *)
(***************************************************************************)
C14_MismatchEndsScan ==
    [][/\ (Examines /\ TagDiffers(q_number))
              => /\ pc' = "append"
                 /\ img_index' = img_index
                 /\ q_number' = q_number
       /\ pc = "append"
              => /\ pc' = "for"
                 /\ q_number' = q_number + 1
                 /\ img_index' = img_index
                 /\ writes' = writes
       /\ pc = "for" => img_index' = img_index /\ writes' = writes
       /\ Examines => writes' = Append(writes, ImgPath(UnderCursor.name))]_vars

(***************************************************************************)
(* The step of the classifier, read off the block it stands on             *)
(***************************************************************************)
\* the classifier stands on a line of a text block
AtLine == InBlocks /\ Block.type = 0 /\ Len(Block.lines) > 0

\* the text of that line
Fragment == Block.lines[line_no]

\* the line is passed over: its text is empty
SkippedLine == AtLine /\ Len(Fragment) = 0

\* the line is a fragment that matches the question or the option pattern
MatchingLine ==
    AtLine /\ Len(Fragment) > 0
           /\ (MatchesQues(Fragment) \/ MatchesOption(Fragment))

(***************************************************************************)
(* C15: the current question number, the current option letter and the     *)
(* role change only in a step on a fragment that matches the question or   *)
(* the option pattern: an image block, a fragment that matches neither and *)
(* a skipped empty line leave the three as they are, and a skipped line    *)
(* leaves flat_text and the image counter as they are too.                 *)
(***************************************************************************)
C15_StateChangesOnMatchOnly ==
    [][/\ (ques' # ques \/ option' # option \/ prev' # prev) => MatchingLine
       /\ SkippedLine => UNCHANGED <<ques, option, prev, all_text, img_count>>]_vars

\* OptionContext has lasted through an image, a skipped line and a fragment
\* that matches nothing
C15_Witness ==
    /\ pc = "classify"
    /\ prev = 1
    /\ image_data # <<>>
    /\ ~QuestionTagged(Last(image_data).name)
    /\ Len(all_text) >= 2
    /\ Last(all_text) = <<"n", "o", "t", "e">>
    /\ MatchesOption(all_text[Len(all_text) - 1])
    /\ ~MatchesOption(Last(all_text)) /\ ~MatchesQues(Last(all_text))

(***************************************************************************)
(* C16: an image tagged in OptionContext (named q...) is in no record's    *)
(* question_images, an image tagged in QuestionContext (named img_q...) is *)
(* in no record's option_images, and no image is in both lists of a        *)
(* record.                                                                 *)
(***************************************************************************)
C16_ListsFollowRole ==
    \A k \in 1..Len(questions) :
        LET r == questions[k]
        IN  /\ \A a \in 1..Len(r.question_images) :
                   QuestionTagged(NameOf(r.question_images[a]))
            /\ \A a \in 1..Len(r.option_images) :
                   ~QuestionTagged(NameOf(r.option_images[a]))
            /\ \A a \in 1..Len(r.question_images) :
                   \A b \in 1..Len(r.option_images) :
                       r.question_images[a] # r.option_images[b]

(***************************************************************************)
(* C17: when one fragment matches both the question pattern and the option *)
(* pattern, both updates are made and the option match wins: right after   *)
(* it the current question number and the current option letter are both   *)
(* values taken from that fragment and the role is OptionContext, and      *)
(* an image tagged while that fragment is the last one is named as an      *)
(* option image, with that number and that letter.                         *)
(***************************************************************************)
MatchesBoth(text) == MatchesQues(text) /\ MatchesOption(text)

C17_BothMatchOptionWins ==
    [][/\ (MatchingLine /\ MatchesBoth(Fragment))
              => /\ prev' = 1
                 /\ Contains(ques', Fragment)
                 /\ Contains(option', Fragment)
       /\ (TagsImage /\ all_text # <<>> /\ MatchesBoth(Last(all_text)))
              => /\ ~QuestionTagged(Last(image_data').name)
                 /\ StartsAt(Last(image_data').name,
                             <<"q">> \o ques \o <<"_", "o", "p", "t", "i", "o", "n">>
                                 \o option \o <<"_">>, 1)
                 /\ Contains(ques, Last(all_text))
                 /\ Contains(option, Last(all_text))]_vars

\* an image was tagged right after a fragment that matches both patterns
C17_Witness ==
    /\ all_text # <<>>
    /\ MatchesBoth(Last(all_text))
    /\ image_data # <<>>
    /\ ~QuestionTagged(Last(image_data).name)
    /\ prev = 1
    /\ Contains(option, Last(all_text))

(***************************************************************************)
(* C18: when the joined text holds no question boundary (no numeral of one *)
(* or two digits with a period and a whitespace character after it at the  *)
(* start of the text or of a line), the assembler makes no record and      *)
(* writes no image file, however many images were tagged: the list it      *)
(* returns, and the list that is saved, is empty.                          *)
(***************************************************************************)
NoBoundary(t) == Boundaries(t) \cup BareNumerals(t) = {}

IndexesOf(paths) ==
    {j \in 1..Len(image_data) :
        \E a \in 1..Len(paths) : paths[a] = ImgPath(image_data[j].name)}

\* the indexes attached to a record, in either list
AttachedIndexes(r) == IndexesOf(r.question_images) \cup IndexesOf(r.option_images)

\* each image attached to the record is in one list only, and once
AttachedOnce(r) ==
    Len(r.question_images) + Len(r.option_images) = Cardinality(AttachedIndexes(r))

\* the images of the records, taken record after record, are the tagged
\* images below the cursor: all of them, each in one record, in order
AttachedIsPrefix ==
    /\ UNION {AttachedIndexes(questions[k]) : k \in 1..Len(questions)}
           = 1..img_index
    /\ \A k \in 1..Len(questions) : AttachedOnce(questions[k])
    /\ \A k, l \in 1..Len(questions) :
           k < l => \A a \in AttachedIndexes(questions[k]) :
                        \A b \in AttachedIndexes(questions[l]) : a < b

\* the number of records the text gives
NumRecords == (Len(parts) - 1) \div 2

\* the cursor is on an image whose tag encodes the number of no record from
\* the current one on
Stranded ==
    /\ pc \in {"for", "while", "append"}
    /\ img_index < Len(image_data)
    /\ \A m \in q_number..NumRecords : TagDiffers(m)

(***************************************************************************)
(* C19: during assembly the cursor never decreases and stays within        *)
(* 0..len(tagged images); after every record the images attached so far,   *)
(* record after record, are exactly the tagged images below the cursor,    *)
(* each in one record and one list; and once the cursor is on an image     *)
(* whose tag matches no current or later record number, the cursor stays   *)
(* there: neither that image nor a later one is attached.                  *)
(***************************************************************************)
C19_CursorAndAttachments ==
    [][/\ img_index' >= img_index
       /\ img_index' \in 0..Len(image_data')
       /\ pc' \in {"for", "done"} => AttachedIsPrefix'
       /\ Stranded => img_index' = img_index]_vars

=============================================================================
